---- MODULE Spec2Model ----
(***************************************************************************)
(* A model of the eve-sso client (src/src/index.ts): class SingleSignOn,   *)
(* its constructor and its three operations getRedirectUrl, getAccessToken *)
(* and refreshToken.                                                       *)
(*                                                                         *)
(* JavaScript strings are modelled as sequences of one-character strings,  *)
(* so that splitting, joining, percent-encoding and Base64 are computed    *)
(* character by character.  An optional value (a parameter that may be     *)
(* undefined, a field that may be null) is a sequence of length 0 or 1.    *)
(***************************************************************************)
EXTENDS Integers, Sequences, FiniteSets, TLC

(***************************************************************************)
(* Bounds of the model.                                                    *)
(***************************************************************************)
\* Invocations of getAccessToken/refreshToken started in one behaviour.
MaxCalls == 2
\* Longest list of scope tokens a caller passes.
MaxTokens == 2

(***************************************************************************)
(* Characters and their codes (printable ASCII, codes 32..126).            *)
(***************************************************************************)
AsciiChars ==
  <<" ","!","\"","#","$","%","&","'","(",")","*","+",",","-",".","/","0","1","2","3","4","5","6","7","8","9",":",";","<","=",">","?","@","A","B","C","D","E","F","G","H","I","J","K","L","M","N","O","P","Q","R","S","T","U","V","W","X","Y","Z","[","\\","]","^","_">>
  \o <<"grave accent">> \o <<"a","b","c","d","e","f","g","h","i","j","k","l","m","n","o","p","q","r","s","t","u","v","w","x","y","z","{","|","}","~">>

Range(s) == { s[i] : i \in 1..Len(s) }

CodeTable ==
  [c \in Range(AsciiChars) |-> 31 + (CHOOSE i \in 1..Len(AsciiChars) : AsciiChars[i] = c)]

CharCode(c) == CodeTable[c]

CharOf(n) == AsciiChars[n - 31]

HexDigits == <<"0","1","2","3","4","5","6","7","8","9","A","B","C","D","E","F">>

HexValue(c) == (CHOOSE i \in 1..Len(HexDigits) : HexDigits[i] = c) - 1

Letters == Range(<<"A","B","C","D","E","F","G","H","I","J","K","L","M","N","O","P","Q","R","S","T","U","V","W","X","Y","Z","a","b","c","d","e","f","g","h","i","j","k","l","m","n","o","p","q","r","s","t","u","v","w","x","y","z">>)

Digits == Range(<<"0","1","2","3","4","5","6","7","8","9">>)

(***************************************************************************)
(* String.prototype.split(sep) and Array.prototype.join(sep) for a         *)
(* one-character separator.  "".split(" ") is [""], as in JavaScript.      *)
(***************************************************************************)
RECURSIVE Split(_, _)
Split(s, sep) ==
  IF \E i \in 1..Len(s) : s[i] = sep
  THEN LET i == CHOOSE j \in 1..Len(s) :
                  s[j] = sep /\ \A k \in 1..(j - 1) : s[k] # sep
       IN  <<SubSeq(s, 1, i - 1)>> \o Split(SubSeq(s, i + 1, Len(s)), sep)
  ELSE <<s>>

RECURSIVE Join(_, _)
Join(parts, sep) ==
  IF parts = <<>> THEN <<>>
  ELSE IF Len(parts) = 1 THEN parts[1]
  ELSE parts[1] \o <<sep>> \o Join(Tail(parts), sep)

(***************************************************************************)
(* querystring.stringify: every key and value percent-encoded by           *)
(* querystring.escape (the unreserved characters are kept, every other     *)
(* character becomes %XX), pairs joined by "&".                            *)
(***************************************************************************)
QsUnreserved == Letters \cup Digits \cup Range(<<"-","_",".","!","~","*","'","(",")">>)

PercentEncode(c) ==
  <<"%", HexDigits[(CharCode(c) \div 16) + 1], HexDigits[(CharCode(c) % 16) + 1]>>

RECURSIVE QsEscape(_)
QsEscape(s) ==
  IF s = <<>> THEN <<>>
  ELSE (IF s[1] \in QsUnreserved THEN <<s[1]>> ELSE PercentEncode(s[1]))
       \o QsEscape(Tail(s))

\* A query object or payload is the sequence of its <<key, value>> pairs, in
\* insertion order (the order JavaScript enumerates string keys in).
Stringify(q) ==
  Join([i \in 1..Len(q) |-> QsEscape(q[i][1]) \o <<"=">> \o QsEscape(q[i][2])], "&")

(***************************************************************************)
(* form-urlencoded: as above, but a space becomes "+" and the characters   *)
(* !'()~* are percent-encoded too.                                         *)
(***************************************************************************)
FormUnreserved == Letters \cup Digits \cup Range(<<"-","_",".">>)

RECURSIVE FormEscape(_)
FormEscape(s) ==
  IF s = <<>> THEN <<>>
  ELSE (IF s[1] = " " THEN <<"+">>
        ELSE IF s[1] \in FormUnreserved THEN <<s[1]>>
        ELSE PercentEncode(s[1]))
       \o FormEscape(Tail(s))

FormUrlEncoded(payload) ==
  Join([i \in 1..Len(payload) |->
          FormEscape(payload[i][1]) \o <<"=">> \o FormEscape(payload[i][2])], "&")

(***************************************************************************)
(* The receiving side: what a server reads back from a query string or a   *)
(* form body (split on "&", then on the first "=", then percent-decoded).  *)
(* These are not part of the client; the claims about "the value carried   *)
(* by the query" are stated through them.                                  *)
(***************************************************************************)
RECURSIVE PercentDecode(_, _)
PercentDecode(s, plusIsSpace) ==
  IF s = <<>> THEN <<>>
  ELSE IF s[1] = "%" /\ Len(s) >= 3
       THEN <<CharOf(16 * HexValue(s[2]) + HexValue(s[3]))>>
            \o PercentDecode(SubSeq(s, 4, Len(s)), plusIsSpace)
  ELSE IF s[1] = "+" /\ plusIsSpace
       THEN <<" ">> \o PercentDecode(Tail(s), plusIsSpace)
  ELSE <<s[1]>> \o PercentDecode(Tail(s), plusIsSpace)

DecodePair(p, plusIsSpace) ==
  LET kv == Split(p, "=")
  IN  <<PercentDecode(kv[1], plusIsSpace),
        PercentDecode(Join(Tail(kv), "="), plusIsSpace)>>

DecodePairs(s, plusIsSpace) ==
  IF s = <<>> THEN <<>>
  ELSE LET ps == Split(s, "&")
       IN  [i \in 1..Len(ps) |-> DecodePair(ps[i], plusIsSpace)]

\* The part of a URL after its first "?".
QueryOf(url) == Join(Tail(Split(url, "?")), "?")

\* The part of a URL before its first "?".
BeforeQuery(url) == Split(url, "?")[1]

\* The values a decoded query or body carries for a key, in order.
ValuesOf(pairs, key) ==
  LET idx == { i \in 1..Len(pairs) : pairs[i][1] = key }
  IN  { pairs[i][2] : i \in idx }

Carries(pairs, key) == ValuesOf(pairs, key) # {}

(***************************************************************************)
(* The state.                                                              *)
(*   client    <<>> before construction, then <<the object's fields>>;     *)
(*   ctorArgs  the arguments the constructor was called with;              *)
(*   redirect  <<>> or <<the last getRedirectUrl call and the URL it       *)
(*             returned>>;                                                 *)
(*   calls     the invocations of getAccessToken and refreshToken, in the  *)
(*             order they were started: the arguments, the response of     *)
(*             the transport (<<>> while in flight) and the outcome of     *)
(*             the promise returned to the caller (<<>> while pending);    *)
(*   requests  every request handed to the transport, in order.            *)
(***************************************************************************)
VARIABLES client, ctorArgs, redirect, calls, requests

vars == <<client, ctorArgs, redirect, calls, requests>>


(***************************************************************************)
(* Buffer.from(s).toString('base64'): the UTF-8 bytes of s (here ASCII),   *)
(* three bytes to four characters, padded with "=".                        *)
(***************************************************************************)
Base64Chars ==
  <<"A","B","C","D","E","F","G","H","I","J","K","L","M","N","O","P","Q","R","S","T","U","V","W","X","Y","Z","a","b","c","d","e","f","g","h","i","j","k","l","m","n","o","p","q","r","s","t","u","v","w","x","y","z","0","1","2","3","4","5","6","7","8","9","+","/">>

Utf8(s) == [i \in 1..Len(s) |-> CharCode(s[i])]

RECURSIVE Base64Bytes(_)
Base64Bytes(b) ==
  IF b = <<>> THEN <<>>
  ELSE LET n  == Len(b)
           b1 == b[1]
           b2 == IF n >= 2 THEN b[2] ELSE 0
           b3 == IF n >= 3 THEN b[3] ELSE 0
       IN  << Base64Chars[(b1 \div 4) + 1],
              Base64Chars[((b1 % 4) * 16 + (b2 \div 16)) + 1],
              IF n >= 2 THEN Base64Chars[((b2 % 16) * 4 + (b3 \div 64)) + 1] ELSE "=",
              IF n >= 3 THEN Base64Chars[(b3 % 64) + 1] ELSE "=" >>
           \o (IF n > 3 THEN Base64Bytes(SubSeq(b, 4, n)) ELSE <<>>)

Base64(s) == Base64Bytes(Utf8(s))

(***************************************************************************)
(* url.parse(endpoint).hostname, for the endpoints of this model: a scheme *)
(* of letters, ":", and then either "//" followed by [auth@]host[:port]    *)
(* and the rest (the hostname is the host, lower-cased) or anything else   *)
(* (no host is parsed for http: and https: without "//": the hostname is   *)
(* null).  Null is the empty optional <<>>.                                *)
(***************************************************************************)
UpTo(s, stops) ==
  IF \E i \in 1..Len(s) : s[i] \in stops
  THEN LET i == CHOOSE j \in 1..Len(s) :
                  s[j] \in stops /\ \A k \in 1..(j - 1) : s[k] \notin stops
       IN  SubSeq(s, 1, i - 1)
  ELSE s

ToLowerCase(s) ==
  [i \in 1..Len(s) |->
     IF CharCode(s[i]) >= 65 /\ CharCode(s[i]) <= 90
     THEN CharOf(CharCode(s[i]) + 32) ELSE s[i]]

Hostname(url) ==
  LET scheme == UpTo(url, {":"})
      rest   == SubSeq(url, Len(scheme) + 2, Len(url))
  IN  IF /\ Len(scheme) >= 1
         /\ Len(scheme) < Len(url)
         /\ \A i \in 1..Len(scheme) : scheme[i] \in Letters
         /\ Len(rest) >= 2
         /\ rest[1] = "/"
         /\ rest[2] = "/"
      THEN LET authority == UpTo(SubSeq(rest, 3, Len(rest)), {"/", "?", "#"})
               hostport  == IF \E i \in 1..Len(authority) : authority[i] = "@"
                            THEN Join(Tail(Split(authority, "@")), "@")
                            ELSE authority
           IN  <<ToLowerCase(UpTo(hostport, {":"}))>>
      ELSE <<>>

(***************************************************************************)
(* JavaScript values of the parameters.                                    *)
(*   string | string[] | undefined   a record with a kind;                 *)
(*   an optional string              <<>> (undefined) or <<s>>.            *)
(***************************************************************************)
Undefined == [kind |-> "undefined", str |-> <<>>, arr |-> <<>>]

StringValue(s) == [kind |-> "string", str |-> s, arr |-> <<>>]

ArrayValue(a) == [kind |-> "array", str |-> <<>>, arr |-> a]

\* if (scopes): undefined and the empty string are falsy, every array is truthy.
TruthyScopes(v) == v.kind = "array" \/ (v.kind = "string" /\ v.str # <<>>)

\* if (state), opts.endpoint || ..., opts.userAgent || ...
TruthyString(o) == o # <<>> /\ o[1] # <<>>

\* Mutant: join() with its default separator, the comma.
JoinedScopesDefaultSeparator(v) == IF v.kind = "array" THEN Join(v.arr, ",") ELSE v.str

\* Array.isArray(scopes) ? scopes.join(' ') : scopes
JoinedScopes(v) == IF v.kind = "array" THEN Join(v.arr, " ") ELSE v.str

(***************************************************************************)
(* The constructor (src/src/index.ts lines 29-50).                         *)
(***************************************************************************)
DefaultEndpoint == <<"h","t","t","p","s",":","/","/","l","o","g","i","n",".","e","v","e","o","n","l","i","n","e",".","c","o","m">>

\* name@version - nodejs@process.version - homepage, from package.json and
\* the runtime; one fixed string here.
DefaultUserAgent == <<"e","v","e","-","s","s","o","@","v","e","r","s","i","o","n"," ","-"," ","n","o","d","e","j","s","@","p","r","o","c","e","s","s",".","v","e","r","s","i","o","n"," ","-"," ","h","o","m","e","p","a","g","e">>

\* Mutant: the colon between the identifier and the secret left out.
CredentialNoColon(clientId, secretKey) == Base64(clientId \o secretKey)

\* Buffer.from(clientId + ':' + secretKey).toString('base64')
Credential(clientId, secretKey) == Base64(clientId \o <<":">> \o secretKey)

\* Mutant: the endpoint itself where no hostname is parsed.
DerivedHostFallback(endpoint) ==
  IF Hostname(endpoint) = <<>> THEN <<endpoint>> ELSE Hostname(endpoint)

\* parse(this.endpoint).hostname
DerivedHost(endpoint) == Hostname(endpoint)

NewClient(clientId, secretKey, callbackUri, opts) ==
  LET endpoint  == IF TruthyString(opts.endpoint) THEN opts.endpoint[1]
                   ELSE DefaultEndpoint
      userAgent == IF TruthyString(opts.userAgent) THEN opts.userAgent[1]
                   ELSE DefaultUserAgent
      scopes    == IF TruthyScopes(opts.scopes)
                   THEN <<IF opts.scopes.kind = "string"
                          THEN Split(opts.scopes.str, " ")
                          ELSE opts.scopes.arr>>
                   ELSE <<>>
  IN  [ clientId      |-> clientId,
        secretKey     |-> secretKey,
        callbackUri   |-> callbackUri,
        endpoint      |-> endpoint,
        userAgent     |-> userAgent,
        scopes        |-> scopes,
        authorization |-> Credential(clientId, secretKey),
        host          |-> DerivedHost(endpoint),
        request       |-> [baseurl |-> endpoint, encoding |-> "json", method |-> "POST"] ]

(***************************************************************************)
(* getRedirectUrl (lines 58-79), as the function of this, state, scopes.   *)
(***************************************************************************)
\* Mutant: the default scopes win over the argument.
ResolvedScopeDefaultsFirst(this, scopes) ==
  IF this.scopes # <<>> THEN Join(this.scopes[1], " ")
  ELSE IF TruthyScopes(scopes) THEN JoinedScopes(scopes)
  ELSE <<>>

ResolvedScope(this, scopes) ==
  IF TruthyScopes(scopes) THEN JoinedScopes(scopes)
  ELSE IF this.scopes # <<>> THEN Join(this.scopes[1], " ")
  ELSE <<>>

\* Mutant: the state parameter always written.
RedirectQueryAlwaysState(this, state, scopes) ==
  << <<<<"r","e","s","p","o","n","s","e","_","t","y","p","e">>, <<"c","o","d","e">>>>,
     <<<<"r","e","d","i","r","e","c","t","_","u","r","i">>, this.callbackUri>>,
     <<<<"c","l","i","e","n","t","_","i","d">>, this.clientId>>,
     <<<<"s","c","o","p","e">>, ResolvedScope(this, scopes)>>,
     <<<<"s","t","a","t","e">>, IF TruthyString(state) THEN state[1] ELSE <<>> >> >>

RedirectQuery(this, state, scopes) ==
  << <<<<"r","e","s","p","o","n","s","e","_","t","y","p","e">>, <<"c","o","d","e">>>>,
     <<<<"r","e","d","i","r","e","c","t","_","u","r","i">>, this.callbackUri>>,
     <<<<"c","l","i","e","n","t","_","i","d">>, this.clientId>>,
     <<<<"s","c","o","p","e">>, ResolvedScope(this, scopes)>> >>
  \o (IF TruthyString(state) THEN << <<<<"s","t","a","t","e">>, state[1]>> >> ELSE <<>>)

RedirectUrl(this, state, scopes) ==
  this.endpoint \o <<"/","v","2","/","o","a","u","t","h","/","a","u","t","h","o","r","i","z","e","?">> \o Stringify(RedirectQuery(this, state, scopes))

(***************************************************************************)
(* getAccessToken (lines 87-99) and refreshToken (lines 108-124): the      *)
(* payload, and the one call of this.#request.                             *)
(***************************************************************************)
AccessTokenPayload(code) ==
  << <<<<"g","r","a","n","t","_","t","y","p","e">>, <<"a","u","t","h","o","r","i","z","a","t","i","o","n","_","c","o","d","e">>>>, <<<<"c","o","d","e">>, code>> >>

\* Mutant: the fallback of getRedirectUrl to the default scopes, copied here.
RefreshTokenPayloadDefaults(refreshToken, scopes) ==
  << <<<<"g","r","a","n","t","_","t","y","p","e">>, <<"r","e","f","r","e","s","h","_","t","o","k","e","n">>>>, <<<<"r","e","f","r","e","s","h","_","t","o","k","e","n">>, refreshToken>> >>
  \o (IF TruthyScopes(scopes) THEN << <<<<"s","c","o","p","e">>, JoinedScopes(scopes)>> >>
      ELSE IF client[1].scopes # <<>>
           THEN << <<<<"s","c","o","p","e">>, Join(client[1].scopes[1], " ")>> >>
      ELSE <<>>)

RefreshTokenPayload(refreshToken, scopes) ==
  << <<<<"g","r","a","n","t","_","t","y","p","e">>, <<"r","e","f","r","e","s","h","_","t","o","k","e","n">>>>, <<<<"r","e","f","r","e","s","h","_","t","o","k","e","n">>, refreshToken>> >>
  \o (IF TruthyScopes(scopes) THEN << <<<<"s","c","o","p","e">>, JoinedScopes(scopes)>> >> ELSE <<>>)

\* Mutant: the whole endpoint as the Host header.
TokenHeadersHostIsEndpoint(this) ==
  [ Host          |-> <<this.endpoint>>,
    Authorization |-> <<"B","a","s","i","c"," ">> \o this.authorization,
    ContentType   |-> <<"a","p","p","l","i","c","a","t","i","o","n","/","x","-","w","w","w","-","f","o","r","m","-","u","r","l","e","n","c","o","d","e","d">>,
    UserAgent     |-> this.userAgent ]

TokenHeaders(this) ==
  [ Host          |-> this.host,
    Authorization |-> <<"B","a","s","i","c"," ">> \o this.authorization,
    ContentType   |-> <<"a","p","p","l","i","c","a","t","i","o","n","/","x","-","w","w","w","-","f","o","r","m","-","u","r","l","e","n","c","o","d","e","d">>,
    UserAgent     |-> this.userAgent ]

\* this.#request(path, body, headers), with #request = bent(endpoint, 'json', 'POST').
TokenRequest(this, id, payload) ==
  [ call    |-> id,
    method  |-> this.request.method,
    baseurl |-> this.request.baseurl,
    path    |-> <<"/","v","2","/","o","a","u","t","h","/","t","o","k","e","n">>,
    body    |-> FormUrlEncoded(payload),
    headers |-> TokenHeaders(this) ]

Init ==
  /\ client = <<>>
  /\ ctorArgs = <<>>
  /\ redirect = <<>>
  /\ calls = <<>>
  /\ requests = <<>>

\* new SingleSignOn(clientId, secretKey, callbackUri, opts)
Construct(clientId, secretKey, callbackUri, opts) ==
  /\ client = <<>>
  /\ client' = <<NewClient(clientId, secretKey, callbackUri, opts)>>
  /\ ctorArgs' = <<[clientId |-> clientId, secretKey |-> secretKey,
                    callbackUri |-> callbackUri, opts |-> opts]>>
  /\ UNCHANGED <<redirect, calls, requests>>

\* client.getRedirectUrl(state, scopes)
GetRedirectUrl(state, scopes) ==
  /\ client # <<>>
  /\ redirect' = <<[state |-> state, scopes |-> scopes,
                    url |-> RedirectUrl(client[1], state, scopes)]>>
  /\ UNCHANGED <<client, ctorArgs, calls, requests>>

NewCall(op, arg, scopes) ==
  [op |-> op, arg |-> arg, scopes |-> scopes, response |-> <<>>, settled |-> <<>>]

\* client.getAccessToken(code), up to the await of the transport
GetAccessToken(code) ==
  /\ client # <<>>
  /\ Len(calls) < MaxCalls
  /\ calls' = Append(calls, NewCall("getAccessToken", code, Undefined))
  /\ requests' = Append(requests,
                        TokenRequest(client[1], Len(calls) + 1, AccessTokenPayload(code)))
  /\ UNCHANGED <<client, ctorArgs, redirect>>

\* Mutant: refreshToken remembers the scopes it was given as the defaults.
RefreshTokenCaching(refreshToken, scopes) ==
  /\ client # <<>>
  /\ Len(calls) < MaxCalls
  /\ calls' = Append(calls, NewCall("refreshToken", refreshToken, scopes))
  /\ requests' = Append(requests,
                        TokenRequest(client[1], Len(calls) + 1,
                                     RefreshTokenPayload(refreshToken, scopes)))
  /\ client' = IF scopes.kind = "array"
               THEN <<[client[1] EXCEPT !.scopes = <<scopes.arr>>]>>
               ELSE client
  /\ UNCHANGED <<ctorArgs, redirect>>

\* client.refreshToken(refreshToken, scopes), up to the await of the transport
RefreshToken(refreshToken, scopes) ==
  /\ client # <<>>
  /\ Len(calls) < MaxCalls
  /\ calls' = Append(calls, NewCall("refreshToken", refreshToken, scopes))
  /\ requests' = Append(requests,
                        TokenRequest(client[1], Len(calls) + 1,
                                     RefreshTokenPayload(refreshToken, scopes)))
  /\ UNCHANGED <<client, ctorArgs, redirect>>

(***************************************************************************)
(* The transport (bent) settles the promise of this.#request: resolved     *)
(* with the parsed JSON body, or rejected (a status that is not 200, a     *)
(* network error, a body that is not JSON).  The async method returns that *)
(* promise, so its own promise settles the same way.                       *)
(***************************************************************************)
Resolved(body) == [ok |-> TRUE, value |-> body]

Rejected(error) == [ok |-> FALSE, value |-> error]

TransportOutcomes ==
  { Resolved("parsed JSON body"),
    Rejected("StatusError"),
    Rejected("network error"),
    Rejected("SyntaxError: invalid JSON") }

\* Mutant: a rejection caught and turned into a resolved null.
SettledMasked(outcome) == IF outcome.ok THEN outcome ELSE Resolved("null")

\* return this.#request(...)
Settled(outcome) == outcome

\* Mutant: one retry when the transport rejects.
TransportRespondRetry(i, outcome) ==
  /\ i \in 1..Len(calls)
  /\ calls[i].response = <<>>
  /\ IF outcome.ok \/ Cardinality({ k \in 1..Len(requests) : requests[k].call = i }) > 1
     THEN /\ calls' = [calls EXCEPT ![i].response = <<outcome>>,
                                    ![i].settled = <<Settled(outcome)>>]
          /\ UNCHANGED requests
     ELSE /\ requests' = Append(requests, requests[i])
          /\ UNCHANGED calls
  /\ UNCHANGED <<client, ctorArgs, redirect>>

TransportRespond(i, outcome) ==
  /\ i \in 1..Len(calls)
  /\ calls[i].response = <<>>
  /\ calls' = [calls EXCEPT ![i].response = <<outcome>>,
                            ![i].settled = <<Settled(outcome)>>]
  /\ UNCHANGED <<client, ctorArgs, redirect, requests>>

(***************************************************************************)
(* The inputs.                                                             *)
(***************************************************************************)
ClientIds == { <<"a","b","c">>, <<"a","b">> }

SecretKeys == { <<"x","y","z">>, <<"x","y">> }

CallbackUris == { <<"h","t","t","p","s",":","/","/","a","p","p",".","e","x","a","m","p","l","e","/","c","b">> }

\* undefined, the empty string, an endpoint with a port, an endpoint with no
\* host to parse (https: without "//").
EndpointOpts == { <<>>, << <<>> >>, <<<<"h","t","t","p","s",":","/","/","s","s","o",".","t","e","s","t",":","8","4","4","3">>>>, <<<<"h","t","t","p","s",":","s","s","o",".","t","e","s","t">>>> }

UserAgentOpts == { <<>>, <<<<"m","y","-","a","p","p","/","1",".","0">>>> }

ScopeTokens == { <<"s","c","o","p","e","A">>, <<"s","c","o","p","e","B">> }

TokenLists == UNION { [1..n -> ScopeTokens] : n \in 0..MaxTokens }

\* undefined, every list of tokens, and every such list as one string.
ScopeInputs ==
  {Undefined}
  \cup { ArrayValue(t) : t \in TokenLists }
  \cup { StringValue(Join(t, " ")) : t \in TokenLists }

\* undefined, the empty string, a plain state, a state that needs escaping.
StateInputs == { <<>>, << <<>> >>, <<<<"s","1">>>>, <<<<"a"," ","b","&","c","=","d">>>> }

Codes == { <<"A","U","T","H","C","O","D","E","1","2","3">> }

RefreshTokens == { <<"R","T","O","K","E","N">> }

Opts(endpoint, userAgent, scopes) ==
  [endpoint |-> endpoint, userAgent |-> userAgent, scopes |-> scopes]

(***************************************************************************)
(* Spec: the whole protocol client.  Every identity, endpoint and user     *)
(* agent; calls in flight concurrently and every outcome of the transport. *)
(***************************************************************************)
ConstructAny ==
  \E id \in ClientIds, key \in SecretKeys, cb \in CallbackUris,
     ep \in EndpointOpts \ {<< <<>> >>}, ua \in UserAgentOpts :
    Construct(id, key, cb, Opts(ep, ua, Undefined))

Next ==
  \/ ConstructAny
  \/ GetRedirectUrl(<<<<"s","1">>>>, Undefined)
  \/ \E code \in Codes : GetAccessToken(code)
  \/ \E rt \in RefreshTokens,
        sc \in {Undefined, ArrayValue(<<<<"s","c","o","p","e","A">>, <<"s","c","o","p","e","B">>>>)} : RefreshToken(rt, sc)
  \/ \E i \in 1..MaxCalls, o \in TransportOutcomes : TransportRespond(i, o)

Spec == Init /\ [][Next]_vars

(***************************************************************************)
(* SpecRedirect: construction and getRedirectUrl over every scope input    *)
(* and every state input.                                                  *)
(***************************************************************************)
ConstructScoped ==
  \E cb \in CallbackUris, sc \in ScopeInputs :
    Construct(<<"a","b","c">>, <<"x","y","z">>, cb, Opts(<<>>, <<>>, sc))

NextRedirect ==
  \/ ConstructScoped
  \/ \E st \in StateInputs, sc \in ScopeInputs : GetRedirectUrl(st, sc)

SpecRedirect == Init /\ [][NextRedirect]_vars

(***************************************************************************)
(* SpecRefresh: refreshToken over every scope input, on a client with and  *)
(* without default scopes.  The requests are followed up to the point      *)
(* where they are handed to the transport.                                 *)
(***************************************************************************)
ConstructDefaults ==
  \E sc \in {Undefined, ArrayValue(<<<<"s","c","o","p","e","B">>>>), StringValue(<<"s","c","o","p","e","B"," ","s","c","o","p","e","A">>)} :
    Construct(<<"a","b","c">>, <<"x","y","z">>, <<"h","t","t","p","s",":","/","/","a","p","p",".","e","x","a","m","p","l","e","/","c","b">>, Opts(<<>>, <<>>, sc))

NextRefresh ==
  \/ ConstructDefaults
  \/ \E rt \in RefreshTokens, sc \in ScopeInputs : RefreshToken(rt, sc)

SpecRefresh == Init /\ [][NextRefresh]_vars

(***************************************************************************)
(* The properties.                                                         *)
(***************************************************************************)
\* How often a decoded query or body carries a key.
KeyCount(pairs, key) == Cardinality({ i \in 1..Len(pairs) : pairs[i][1] = key })

\* The query a server decodes from a redirect URL, the form a server decodes
\* from a request body.
QueryPairs(url) == DecodePairs(QueryOf(url), FALSE)

BodyPairs(request) == DecodePairs(request.body, TRUE)

ScopeValues(url) == ValuesOf(QueryPairs(url), <<"s","c","o","p","e">>)

\* What the constructor was given, read from its arguments.
ConfiguredEndpoint ==
  IF ctorArgs[1].opts.endpoint = <<>> \/ ctorArgs[1].opts.endpoint = << <<>> >>
  THEN <<"h","t","t","p","s",":","/","/","l","o","g","i","n",".","e","v","e","o","n","l","i","n","e",".","c","o","m">>
  ELSE ctorArgs[1].opts.endpoint[1]

ConfiguredUserAgent ==
  IF ctorArgs[1].opts.userAgent = <<>> \/ ctorArgs[1].opts.userAgent = << <<>> >>
  THEN DefaultUserAgent
  ELSE ctorArgs[1].opts.userAgent[1]

\* The scopes of a string | string[] value, as one space-separated string.
SpaceJoined(v) == IF v.kind = "array" THEN Join(v.arr, " ") ELSE v.str

\* An array (even an empty one) or a non-empty string.
NonEmptyStringOrArray(v) == v.kind = "array" \/ (v.kind = "string" /\ Len(v.str) > 0)

(***************************************************************************)
(* C1, as stated: explicit scopes passed to getRedirectUrl always override *)
(* the default scopes; without explicit scopes the defaults, joined with a *)
(* space, are used; with neither, scope is present and empty.              *)
(* Fails: the empty string passed as scopes does not override defaults.    *)
(***************************************************************************)
C1_Original ==
  redirect # <<>> =>
    LET r == redirect[1]
        expected == IF r.scopes.kind # "undefined" THEN SpaceJoined(r.scopes)
                    ELSE IF client[1].scopes # <<>> THEN Join(client[1].scopes[1], " ")
                    ELSE <<>>
    IN  /\ KeyCount(QueryPairs(r.url), <<"s","c","o","p","e">>) = 1
        /\ ScopeValues(r.url) = {expected}

(***************************************************************************)
(* C1, amended: scopes passed as an array (even an empty one) or as a      *)
(* non-empty string override the default scopes; with scopes undefined or  *)
(* the empty string the defaults, joined with a space, are used; with      *)
(* neither, the scope parameter is present with the empty string as value. *)
(***************************************************************************)
C1_ScopePrecedence ==
  redirect # <<>> =>
    LET r == redirect[1]
        expected == IF NonEmptyStringOrArray(r.scopes) THEN SpaceJoined(r.scopes)
                    ELSE IF client[1].scopes # <<>> THEN Join(client[1].scopes[1], " ")
                    ELSE <<>>
    IN  /\ KeyCount(QueryPairs(r.url), <<"s","c","o","p","e">>) = 1
        /\ ScopeValues(r.url) = {expected}

\* Explicit scopes override different default scopes.
C1_Witness ==
  /\ redirect # <<>>
  /\ client[1].scopes = << <<<<"s","c","o","p","e","A">>>> >>
  /\ redirect[1].scopes = ArrayValue(<<<<"s","c","o","p","e","B">>>>)
  /\ ScopeValues(redirect[1].url) = {<<"s","c","o","p","e","B">>}

(***************************************************************************)
(* C2, as stated: the body of a refreshToken request has a scope field if  *)
(* and only if scopes is supplied to the call, with the supplied scopes    *)
(* joined by a space as its value.                                         *)
(* Fails: the empty string supplied as scopes gives no scope field.        *)
(***************************************************************************)
C2_Original ==
  \A i \in 1..Len(calls) :
    calls[i].op = "refreshToken" =>
      LET body == BodyPairs(requests[i])
      IN  IF calls[i].scopes.kind # "undefined"
          THEN /\ KeyCount(body, <<"s","c","o","p","e">>) = 1
               /\ ValuesOf(body, <<"s","c","o","p","e">>) = {SpaceJoined(calls[i].scopes)}
          ELSE KeyCount(body, <<"s","c","o","p","e">>) = 0

(***************************************************************************)
(* C2, amended: the body of a refreshToken request has a scope field if    *)
(* and only if the scopes argument of that call is an array or a non-empty *)
(* string, and its value is then those scopes joined with a single space;  *)
(* the default scopes of the client never appear in the body.              *)
(***************************************************************************)
C2_ScopeField ==
  \A i \in 1..Len(calls) :
    calls[i].op = "refreshToken" =>
      LET body == BodyPairs(requests[i])
      IN  /\ ValuesOf(body, <<"g","r","a","n","t","_","t","y","p","e">>) = {<<"r","e","f","r","e","s","h","_","t","o","k","e","n">>}
          /\ ValuesOf(body, <<"r","e","f","r","e","s","h","_","t","o","k","e","n">>) = {calls[i].arg}
          /\ IF NonEmptyStringOrArray(calls[i].scopes)
             THEN /\ KeyCount(body, <<"s","c","o","p","e">>) = 1
                  /\ ValuesOf(body, <<"s","c","o","p","e">>) = {SpaceJoined(calls[i].scopes)}
             ELSE KeyCount(body, <<"s","c","o","p","e">>) = 0

\* A client with default scopes: one refresh without scopes, one with.
C2_Witness ==
  /\ Len(calls) = 2
  /\ client[1].scopes = << <<<<"s","c","o","p","e","B">>>> >>
  /\ calls[1].scopes = Undefined
  /\ KeyCount(BodyPairs(requests[1]), <<"s","c","o","p","e">>) = 0
  /\ calls[2].scopes = ArrayValue(<<<<"s","c","o","p","e","A">>, <<"s","c","o","p","e","B">>>>)
  /\ ValuesOf(BodyPairs(requests[2]), <<"s","c","o","p","e">>) = {<<"s","c","o","p","e","A"," ","s","c","o","p","e","B">>}

(***************************************************************************)
(* C3, as stated: for every sequence of tokens T and its space-joined      *)
(* string S, getRedirectUrl gives the same scope parameter for S as for T, *)
(* as the explicit argument and as the construction-time default.          *)
(* Fails: for the empty T the argument S = "" falls back to the defaults,  *)
(* the argument T does not.                                                *)
(***************************************************************************)
\* The client the constructor gives when the default scopes, an array, are
\* passed as one string instead.
ClientFromString ==
  NewClient(ctorArgs[1].clientId, ctorArgs[1].secretKey, ctorArgs[1].callbackUri,
            [ctorArgs[1].opts EXCEPT
               !.scopes = StringValue(Join(ctorArgs[1].opts.scopes.arr, " "))])

C3_Original ==
  redirect # <<>> =>
    LET r == redirect[1]
    IN  /\ r.scopes.kind = "array" =>
             ScopeValues(r.url) =
               ScopeValues(RedirectUrl(client[1], r.state,
                                       StringValue(Join(r.scopes.arr, " "))))
        /\ ctorArgs[1].opts.scopes.kind = "array" =>
             ScopeValues(r.url) = ScopeValues(RedirectUrl(ClientFromString, r.state, r.scopes))

(***************************************************************************)
(* C3, amended: for every sequence of tokens T whose space-joined string S *)
(* is not empty, getRedirectUrl gives the same scope parameter for the     *)
(* argument S as for the argument T; and for every T, a client constructed *)
(* with the default scopes S gives the same scope parameter as one         *)
(* constructed with the default scopes T.                                  *)
(***************************************************************************)
C3_StringEqualsTokens ==
  redirect # <<>> =>
    LET r == redirect[1]
    IN  /\ (r.scopes.kind = "array" /\ Join(r.scopes.arr, " ") # <<>>) =>
             ScopeValues(r.url) =
               ScopeValues(RedirectUrl(client[1], r.state,
                                       StringValue(Join(r.scopes.arr, " "))))
        /\ ctorArgs[1].opts.scopes.kind = "array" =>
             ScopeValues(r.url) = ScopeValues(RedirectUrl(ClientFromString, r.state, r.scopes))

\* Two tokens as the argument, on a client constructed with two tokens.
C3_Witness ==
  /\ redirect # <<>>
  /\ ctorArgs[1].opts.scopes = ArrayValue(<<<<"s","c","o","p","e","B">>, <<"s","c","o","p","e","B">>>>)
  /\ redirect[1].scopes = ArrayValue(<<<<"s","c","o","p","e","A">>, <<"s","c","o","p","e","B">>>>)
  /\ ScopeValues(redirect[1].url) = {<<"s","c","o","p","e","A"," ","s","c","o","p","e","B">>}

(***************************************************************************)
(* C4: the query of every redirect URL carries response_type=code,         *)
(* redirect_uri=callbackUri, client_id=clientId and scope; it carries no   *)
(* state when the state is undefined or empty, and the state of the caller *)
(* unchanged otherwise.                                                    *)
(***************************************************************************)
C4_RedirectQuery ==
  redirect # <<>> =>
    LET r == redirect[1]
        q == QueryPairs(r.url)
    IN  /\ KeyCount(q, <<"r","e","s","p","o","n","s","e","_","t","y","p","e">>) = 1
        /\ ValuesOf(q, <<"r","e","s","p","o","n","s","e","_","t","y","p","e">>) = {<<"c","o","d","e">>}
        /\ KeyCount(q, <<"r","e","d","i","r","e","c","t","_","u","r","i">>) = 1
        /\ ValuesOf(q, <<"r","e","d","i","r","e","c","t","_","u","r","i">>) = {ctorArgs[1].callbackUri}
        /\ KeyCount(q, <<"c","l","i","e","n","t","_","i","d">>) = 1
        /\ ValuesOf(q, <<"c","l","i","e","n","t","_","i","d">>) = {ctorArgs[1].clientId}
        /\ KeyCount(q, <<"s","c","o","p","e">>) = 1
        /\ IF r.state = <<>> \/ r.state = << <<>> >>
           THEN KeyCount(q, <<"s","t","a","t","e">>) = 0
           ELSE /\ KeyCount(q, <<"s","t","a","t","e">>) = 1
                /\ ValuesOf(q, <<"s","t","a","t","e">>) = {r.state[1]}

\* A state with a space, "&" and "=" comes back unchanged.
C4_Witness ==
  /\ redirect # <<>>
  /\ redirect[1].state = <<<<"a"," ","b","&","c","=","d">>>>
  /\ ValuesOf(QueryPairs(redirect[1].url), <<"s","t","a","t","e">>) = {<<"a"," ","b","&","c","=","d">>}

(***************************************************************************)
(* C5: every request of getAccessToken and of refreshToken, whatever the   *)
(* arguments and the earlier calls, carries the same four headers: Host,   *)
(* the hostname of the configured endpoint; Authorization, "Basic " and    *)
(* the derived credential; Content-Type, the form media type; User-Agent,  *)
(* the configured user agent.                                              *)
(***************************************************************************)
C5_SameHeaders ==
  \A i \in 1..Len(requests) :
    /\ requests[i].headers.Host = Hostname(ConfiguredEndpoint)
    /\ requests[i].headers.Authorization = <<"B","a","s","i","c"," ">> \o client[1].authorization
    /\ requests[i].headers.ContentType = <<"a","p","p","l","i","c","a","t","i","o","n","/","x","-","w","w","w","-","f","o","r","m","-","u","r","l","e","n","c","o","d","e","d">>
    /\ requests[i].headers.UserAgent = ConfiguredUserAgent
    /\ requests[i].headers = requests[1].headers

\* A getAccessToken that was answered, then a refreshToken with scopes, on a
\* client with its own endpoint and user agent.
C5_Witness ==
  /\ Len(requests) = 2
  /\ ctorArgs[1].opts.endpoint = <<<<"h","t","t","p","s",":","/","/","s","s","o",".","t","e","s","t",":","8","4","4","3">>>>
  /\ ctorArgs[1].opts.userAgent = <<<<"m","y","-","a","p","p","/","1",".","0">>>>
  /\ calls[1].op = "getAccessToken"
  /\ calls[1].response # <<>>
  /\ calls[2].op = "refreshToken"
  /\ calls[2].scopes.kind = "array"
  /\ requests[2].headers.Host = <<<<"s","s","o",".","t","e","s","t">>>>
  /\ requests[2].headers.UserAgent = <<"m","y","-","a","p","p","/","1",".","0">>

(***************************************************************************)
(* C6: the credential of every token request is the Base64 encoding of     *)
(* clientId ":" secretKey as given to the constructor; for abc and xyz the *)
(* Authorization header is "Basic YWJjOnh5eg==".                           *)
(***************************************************************************)
Base64Index(c) ==
  IF c = "=" THEN 0 ELSE (CHOOSE i \in 1..Len(Base64Chars) : Base64Chars[i] = c) - 1

\* The bytes a Base64 text stands for.
RECURSIVE Base64Decode(_)
Base64Decode(s) ==
  IF Len(s) < 4 THEN <<>>
  ELSE LET v1 == Base64Index(s[1])
           v2 == Base64Index(s[2])
           v3 == Base64Index(s[3])
           v4 == Base64Index(s[4])
       IN  << v1 * 4 + (v2 \div 16) >>
           \o (IF s[3] = "=" THEN <<>> ELSE << (v2 % 16) * 16 + (v3 \div 4) >>)
           \o (IF s[4] = "=" THEN <<>> ELSE << (v3 % 4) * 64 + v4 >>)
           \o Base64Decode(SubSeq(s, 5, Len(s)))

C6_BasicCredential ==
  \A i \in 1..Len(requests) :
    LET header     == requests[i].headers.Authorization
        credential == SubSeq(header, 7, Len(header))
        identity   == ctorArgs[1].clientId \o <<":">> \o ctorArgs[1].secretKey
    IN  /\ SubSeq(header, 1, 6) = <<"B","a","s","i","c"," ">>
        /\ Len(credential) = 4 * ((Len(identity) + 2) \div 3)
        /\ Base64Decode(credential) = [k \in 1..Len(identity) |-> CharCode(identity[k])]
        /\ (ctorArgs[1].clientId = <<"a","b","c">> /\ ctorArgs[1].secretKey = <<"x","y","z">>) =>
             header = <<"B","a","s","i","c"," ","Y","W","J","j","O","n","h","5","e","g","=","=">>

\* The client abc, xyz has sent a request.
C6_Witness ==
  /\ Len(requests) >= 1
  /\ ctorArgs[1].clientId = <<"a","b","c">>
  /\ ctorArgs[1].secretKey = <<"x","y","z">>
  /\ requests[1].headers.Authorization = <<"B","a","s","i","c"," ","Y","W","J","j","O","n","h","5","e","g","=","=">>

(***************************************************************************)
(* C7, as stated: an endpoint from which no hostname can be derived makes  *)
(* construction fail: there is no client whose derived host is missing,    *)
(* and no token request whose Host is absent.                              *)
(* Fails: the constructor returns a client whose host is null.             *)
(***************************************************************************)
C7_Original ==
  /\ client # <<>> => client[1].host # <<>>
  /\ \A i \in 1..Len(requests) : requests[i].headers.Host # <<>>

(***************************************************************************)
(* C7, amended: an endpoint that starts with "https:" and from which no    *)
(* hostname can be derived is tolerated silently: construction gives a     *)
(* client whose derived host is null, and every later getAccessToken and   *)
(* refreshToken hands the transport a request whose Host is null.          *)
(***************************************************************************)
C7_LenientHost ==
  (client # <<>> /\ Hostname(ConfiguredEndpoint) = <<>>) =>
    /\ client[1].host = <<>>
    /\ client[1].endpoint = ConfiguredEndpoint
    /\ \A i \in 1..Len(requests) : requests[i].headers.Host = <<>>

\* A client constructed on https:sso.test has sent a request.
C7_Witness ==
  /\ client # <<>>
  /\ ctorArgs[1].opts.endpoint = <<<<"h","t","t","p","s",":","s","s","o",".","t","e","s","t">>>>
  /\ client[1].host = <<>>
  /\ Len(requests) = 2
  /\ requests[2].headers.Host = <<>>

(***************************************************************************)
(* C8: every invocation of getAccessToken or refreshToken issues exactly   *)
(* one POST to endpoint/v2/oauth/token, whatever the transport answers;    *)
(* construction and getRedirectUrl issue no request.                       *)
(***************************************************************************)
C8_OneRequestPerCall ==
  /\ Len(requests) = Len(calls)
  /\ \A i \in 1..Len(calls) :
       /\ Cardinality({ k \in 1..Len(requests) : requests[k].call = i }) = 1
       /\ requests[i].call = i
       /\ requests[i].method = "POST"
       /\ requests[i].baseurl \o requests[i].path
            = ConfiguredEndpoint \o <<"/","v","2","/","o","a","u","t","h","/","t","o","k","e","n">>

\* Both calls were rejected by the transport, after a getRedirectUrl.
C8_Witness ==
  /\ Len(calls) = 2
  /\ redirect # <<>>
  /\ calls[1].response = <<Rejected("StatusError")>>
  /\ calls[2].response = <<Rejected("network error")>>
  /\ Len(requests) = 2

(***************************************************************************)
(* C9: the outcome of a getAccessToken or refreshToken call is the outcome *)
(* of its transport request: the same rejection, or the same parsed body;  *)
(* pending as long as the transport has not answered.                      *)
(***************************************************************************)
C9_OutcomePassthrough ==
  \A i \in 1..Len(calls) :
    /\ calls[i].response = <<>> => calls[i].settled = <<>>
    /\ calls[i].response # <<>> =>
         /\ calls[i].settled # <<>>
         /\ calls[i].settled[1].ok = calls[i].response[1].ok
         /\ calls[i].settled[1].value = calls[i].response[1].value

\* One call rejected for a body that is not JSON, one resolved.
C9_Witness ==
  /\ Len(calls) = 2
  /\ calls[1].settled = <<Rejected("SyntaxError: invalid JSON")>>
  /\ calls[2].settled = <<Resolved("parsed JSON body")>>

(***************************************************************************)
(* C10: once constructed, no call changes a field of the client, and the   *)
(* request of every call is the function of the arguments of that call and *)
(* of the arguments of the constructor alone, whatever calls are in flight *)
(* and in whatever order they started and completed: every step leaves the *)
(* client and the requests already sent as they are, and a request it adds *)
(* is the one computed from the constructor's and the call's arguments.    *)
(***************************************************************************)
PayloadOf(call) ==
  IF call.op = "getAccessToken" THEN AccessTokenPayload(call.arg)
  ELSE RefreshTokenPayload(call.arg, call.scopes)

ConstructedClient ==
  NewClient(ctorArgs[1].clientId, ctorArgs[1].secretKey, ctorArgs[1].callbackUri,
            ctorArgs[1].opts)

C10_Immutable ==
  [][ client # <<>> =>
        /\ client' = client
        /\ ctorArgs' = ctorArgs
        /\ Len(requests') >= Len(requests)
        /\ SubSeq(requests', 1, Len(requests)) = requests
        /\ \A i \in (Len(requests) + 1)..Len(requests') :
             requests'[i] = TokenRequest(ConstructedClient, i, PayloadOf(calls'[i])) ]_vars

\* Two calls in flight at once, the second answered before the first, and a
\* getRedirectUrl in between.
C10_Witness ==
  /\ Len(calls) = 2
  /\ redirect # <<>>
  /\ calls[1].op = "refreshToken"
  /\ calls[1].response = <<>>
  /\ calls[2].op = "getAccessToken"
  /\ calls[2].response # <<>>

====
